---- MODULE Spec2Model ----
(***************************************************************************)
(* State-synchronisation and audit layer of the warehouse application      *)
(* (src/types.ts: the App component, its subscription effect and its four  *)
(* mutation handlers), together with the remote store it talks to.         *)
(*                                                                         *)
(* Conventions.  A nullable value is a sequence of length at most one:     *)
(* <<>> is null, <<v>> is the value v.  A Record<string, number> is a      *)
(* function whose DOMAIN is the set of keys present.  A template string is *)
(* a record holding the template's name and the values substituted in it.  *)
(* The labels the source writes in Arabic are given in English.            *)
(***************************************************************************)
EXTENDS Integers, Sequences, FiniteSets, TLC

(* ------------------------------ bounds --------------------------------- *)
\* operation attempts in one run of Spec; SpecTwo allows one more
MaxCalls == 1

(* --------------------------- entity model ------------------------------ *)
ADMIN == "Admin"
AUDITOR == "Auditor"
GUEST == "Guest"
UserRole == {ADMIN, AUDITOR, GUEST}

NULL == <<>>
Some(v) == <<v>>

Materials == {"sugar"}
EmptyInventory == [k \in {} |-> 0]

Room(id, name, temperature, inventory, fermentationStart) ==
  [id |-> id, name |-> name, temperature |-> temperature,
   inventory |-> inventory, fermentationStart |-> fermentationStart]

LogEntry(userRole, roomName, action, details, timestamp) ==
  [userRole |-> userRole, roomName |-> roomName, action |-> action,
   details |-> details, timestamp |-> timestamp]

(* log action labels, lines 105, 118, 131, 145 *)
ACT_ADD_ROOM == "room created"
ACT_TEMP == "temperature changed"
ACT_STOCK_IN == "stock in"
ACT_STOCK_OUT == "stock out"
ACT_FERMENT_START == "fermentation started"
ACT_FERMENT_STOP == "fermentation stopped"

(* the details template strings, lines 105, 118, 132, 146 *)
Details(text, subject, old, new) ==
  [text |-> text, subject |-> subject, old |-> old, new |-> new]

(* ------------------------------ inputs --------------------------------- *)
TargetIds == {1, 2}
Temps == {22}
Amounts == {-1, 0, 1}
PromptResults == {NULL, Some(""), Some("R9")}
CallIds == 1..(MaxCalls + 1)

(* --------------------------- remote store ------------------------------ *)
DefaultTemperature == 20
SeedRooms ==
  << Room(1, "R1", DefaultTemperature, [k \in {"yeast"} |-> 2], NULL) >>

\* a rooms collection left by earlier sessions: the seed room, stocked with
\* sugar since and fermenting since instant 1
ExistingRooms ==
  << Room(1, "R1", DefaultTemperature,
          [k \in {"sugar", "yeast"} |-> IF k = "sugar" THEN 1 ELSE 2],
          Some(1)) >>

VARIABLES
  configured,    \* isFirebaseConfigured()
  phase,         \* "init", "active", "configError", "unmounted"
  initCalls,     \* number of initializeDB() calls
  dbRooms,       \* the store's rooms collection
  dbLogs,        \* the store's logs collection
  subs,          \* the open subscriptions
  opened,        \* number of subscriptions ever opened
  roomsChan,     \* rooms snapshots emitted and not yet delivered
  logsChan,      \* logs snapshots emitted and not yet delivered
  rooms,         \* useState: the mirror's rooms
  logs,          \* useState: the mirror's logs
  currentUser,   \* useState: the current role
  configError,   \* useState
  searchQuery,   \* useState: the text of the search box
  tasks,         \* the mutation calls that passed validation, in call order
  rejected,      \* number of calls that returned at their input check
  denied,        \* number of Add room attempts by a role that is not Admin
  alerts,        \* number of alert() notices shown
  budget,        \* number of operation attempts the user makes in this run
  clock          \* Date.now(): every read returns a later instant

vars == << configured, phase, initCalls, dbRooms, dbLogs, subs, opened,
           roomsChan, logsChan, rooms, logs, currentUser, configError,
           searchQuery, tasks, rejected, denied, alerts, budget, clock >>

storeVars == << dbRooms, dbLogs >>
chanVars == << roomsChan, logsChan >>
subVars == << subs, opened >>
lifeVars == << configured, phase, initCalls, configError, budget >>
callVars == << tasks, rejected, denied >>


(* ------------------------- pure helpers -------------------------------- *)
Min(S) == CHOOSE x \in S : \A y \in S : x <= y

\* rooms.find(r => r.id === id): the first room with that id, or undefined
find(rs, id) ==
  LET hits == {i \in 1..Len(rs) : rs[i].id = id}
  IN  IF hits = {} THEN NULL ELSE Some(rs[Min(hits)])

\* NameRejected that lets the empty string through
NameRejectedNullOnly(name) == name = NULL

\* !name : null and the empty string are falsy
NameRejected(name) == name = NULL \/ name = Some("")

\* room.inventory[material] || 0
OldQty(inventory, material) ==
  IF material \in DOMAIN inventory /\ inventory[material] # 0
    THEN inventory[material] ELSE 0

\* oldQty + amount
NewQty(oldQty, amount) == oldQty + amount

\* StockAction with amount >= 0 in place of amount > 0
StockActionNonNegative(amount) ==
  IF amount >= 0 THEN ACT_STOCK_IN ELSE ACT_STOCK_OUT

\* amount > 0 ? "stock in" : "stock out"
StockAction(amount) == IF amount > 0 THEN ACT_STOCK_IN ELSE ACT_STOCK_OUT

\* !room.fermentationStart : null and 0 are falsy
IsStarting(fermentationStart) ==
  fermentationStart = NULL \/ fermentationStart = Some(0)

\* isStarting ? Date.now() : null
ToggleValue(isStarting, now) == IF isStarting THEN Some(now) ELSE NULL

\* ToggleAction with its two labels exchanged
ToggleActionSwapped(isStarting) ==
  IF isStarting THEN ACT_FERMENT_STOP ELSE ACT_FERMENT_START

\* isStarting ? "fermentation started" : "fermentation stopped"
ToggleAction(isStarting) ==
  IF isStarting THEN ACT_FERMENT_START ELSE ACT_FERMENT_STOP

\* isStarting ? "process started" : "process stopped"
ToggleDetails(isStarting) ==
  IF isStarting THEN Details("process started", "", 0, 0)
                ELSE Details("process stopped", "", 0, 0)

(* ------------------- remote store adapter (services/storage) ----------- *)
\* addRoom(name): a Room with a generated id, zero inventory, null start
StoreAddRoom(rs, name) ==
  Append(rs, Room(Len(rs) + 1, name, DefaultTemperature, EmptyInventory, NULL))

\* updateRoomFields(id, { temperature })
StoreSetTemperature(rs, id, temp) ==
  [i \in DOMAIN rs |->
     IF rs[i].id = id THEN [rs[i] EXCEPT !.temperature = temp] ELSE rs[i]]

\* updateRoomFields(id, { fermentationStart })
StoreSetFermentation(rs, id, start) ==
  [i \in DOMAIN rs |->
     IF rs[i].id = id THEN [rs[i] EXCEPT !.fermentationStart = start] ELSE rs[i]]

\* updateStock(id, material, newQuantity)
StoreUpdateStock(rs, id, material, qty) ==
  [i \in DOMAIN rs |->
     IF rs[i].id = id
       THEN [rs[i] EXCEPT !.inventory =
               [k \in (DOMAIN rs[i].inventory) \cup {material} |->
                  IF k = material THEN qty ELSE rs[i].inventory[k]]]
       ELSE rs[i]]

\* addLog(entry): the store assigns the id
StoreAddLog(ls, entry) ==
  Append(ls, [id |-> Len(ls) + 1, userRole |-> entry.userRole,
              roomName |-> entry.roomName, action |-> entry.action,
              details |-> entry.details, timestamp |-> entry.timestamp])

\* a subscription emits the collection's full snapshot on every change
Emit(chan, name, snapshot) ==
  IF name \in subs THEN Append(chan, snapshot) ELSE chan

(* --------------------------- write requests ---------------------------- *)
AddRoomReq(name) ==
  [kind |-> "addRoom", id |-> 0, name |-> name, temp |-> 0,
   material |-> "", qty |-> 0, start |-> NULL]
\* TemperatureReq that names the fermentationStart field
TemperatureReqWrongField(id, temp) ==
  [kind |-> "fermentation", id |-> id, name |-> "", temp |-> temp,
   material |-> "", qty |-> 0, start |-> NULL]
TemperatureReq(id, temp) ==
  [kind |-> "temperature", id |-> id, name |-> "", temp |-> temp,
   material |-> "", qty |-> 0, start |-> NULL]
StockReq(id, material, qty) ==
  [kind |-> "stock", id |-> id, name |-> "", temp |-> 0,
   material |-> material, qty |-> qty, start |-> NULL]
FermentationReq(id, start) ==
  [kind |-> "fermentation", id |-> id, name |-> "", temp |-> 0,
   material |-> "", qty |-> 0, start |-> start]

\* the store applies a write request to the rooms collection
ApplyWrite(rs, w) ==
  CASE w.kind = "addRoom"      -> StoreAddRoom(rs, w.name)
    [] w.kind = "temperature"  -> StoreSetTemperature(rs, w.id, w.temp)
    [] w.kind = "stock"        -> StoreUpdateStock(rs, w.id, w.material, w.qty)
    [] w.kind = "fermentation" -> StoreSetFermentation(rs, w.id, w.start)

(* --------------------------- mutation calls ---------------------------- *)
\* The closure of one running handler: the room it found in the mirror (null
\* in handleAddRoom), its other locals, the role of the render that created it
\* (the currentUser addLog closes over), the write request it awaits, and how
\* it and its addLog call settled.
Task(op, w, room, role, locals) ==
  [op |-> op, pc |-> "write", w |-> w, room |-> room, role |-> role,
   locals |-> locals, wrote |-> FALSE, result |-> "pending",
   logEntry |-> NULL, logResult |-> "none"]

Locals(oldTemp, temp, material, amount, oldQty, newQty, isStarting) ==
  [oldTemp |-> oldTemp, temp |-> temp, material |-> material,
   amount |-> amount, oldQty |-> oldQty, newQty |-> newQty,
   isStarting |-> isStarting]

NoLocals == Locals(0, 0, "", 0, 0, 0, FALSE)

\* the action argument each handler passes to addLog
LogAction(task) ==
  CASE task.op = "addRoom"    -> ACT_ADD_ROOM
    [] task.op = "updateTemp" -> ACT_TEMP
    [] task.op = "updateStock" -> StockAction(task.locals.amount)
    [] task.op = "toggle"     -> ToggleAction(task.locals.isStarting)

\* the details argument each handler passes to addLog
LogDetails(task) ==
  CASE task.op = "addRoom"    -> Details("room created", "", 0, 0)
    [] task.op = "updateTemp" ->
         Details("from old to new", "", task.locals.oldTemp, task.locals.temp)
    [] task.op = "updateStock" ->
         Details("material: old -> new", task.locals.material,
                 task.locals.oldQty, task.locals.newQty)
    [] task.op = "toggle"     -> ToggleDetails(task.locals.isStarting)

\* the roomName argument each handler passes to addLog
LogRoomName(task) ==
  IF task.op = "addRoom" THEN task.w.name ELSE task.room[1].name

\* addLog that reads the role when the entry is built, not from its closure
addLogCurrentRole(task, now) ==
  LogEntry(currentUser, LogRoomName(task), LogAction(task), LogDetails(task),
           now)

\* addLog(action, roomName, details): the entry handed to StorageService.addLog
addLog(task, now) ==
  LogEntry(task.role, LogRoomName(task), LogAction(task), LogDetails(task), now)

\* Continuation with the audit append issued whatever the write's outcome
ContinuationLogAnyway(task, ok, now) ==
  [task EXCEPT !.pc = "log", !.wrote = ok,
               !.result = IF ok \/ task.op = "addRoom" THEN "resolved"
                                                       ELSE "rejected",
               !.logEntry = Some(addLog(task, now)),
               !.logResult = "pending"]

\* What follows the awaited write.  Fulfilled: addLog is called, not awaited,
\* and the handler returns.  Rejected: handleAddRoom catches and alerts, the
\* other three handlers let the rejection reach their caller.
Continuation(task, ok, now) ==
  IF ok
    THEN [task EXCEPT !.pc = "log", !.wrote = TRUE, !.result = "resolved",
                      !.logEntry = Some(addLog(task, now)),
                      !.logResult = "pending"]
    ELSE [task EXCEPT !.pc = "done",
                      !.result = IF task.op = "addRoom" THEN "alerted"
                                                        ELSE "rejected"]

\* number of operation attempts so far
Calls == Len(tasks) + rejected + denied

\* if (!name) return;  if (!room) return;
Return ==
  /\ rejected' = rejected + 1
  /\ UNCHANGED << tasks, clock >>

\* the handler reaches its awaited store write
Await(task) ==
  /\ tasks' = Append(tasks, task)
  /\ UNCHANGED rejected

(* ------------------------------ Init ----------------------------------- *)
InitWith(attempts) ==
  /\ budget = attempts
  /\ configured \in BOOLEAN
  /\ phase = "init"
  /\ initCalls = 0
  /\ dbRooms \in {<<>>, ExistingRooms}
  /\ dbLogs = <<>>
  /\ subs = {}
  /\ opened = 0
  /\ roomsChan = <<>>
  /\ logsChan = <<>>
  /\ rooms = <<>>
  /\ logs = <<>>
  /\ currentUser = ADMIN
  /\ configError = FALSE
  /\ searchQuery = <<>>
  /\ tasks = <<>>
  /\ rejected = 0
  /\ denied = 0
  /\ alerts = 0
  /\ clock = 2

Init == InitWith(MaxCalls)

InitTwo == InitWith(MaxCalls + 1)

(* ------------------------ synchronisation engine ----------------------- *)
\* initializeDB(): seeds the rooms collection when it holds no room
StoreInitializeDB(rs) == IF rs = <<>> THEN SeedRooms ELSE rs

\* Mount without the isFirebaseConfigured() check
MountUnchecked ==
  /\ phase = "init"
  /\ phase' = "active"
  /\ initCalls' = initCalls + 1
  /\ dbRooms' = StoreInitializeDB(dbRooms)
  /\ subs' = {"rooms", "logs"}
  /\ opened' = opened + 2
  /\ roomsChan' = << dbRooms' >>
  /\ logsChan' = << dbLogs >>
  /\ UNCHANGED << configured, searchQuery, configError, budget, dbLogs, rooms, logs,
                  currentUser, callVars, alerts, clock >>

\* useEffect body, lines 62-79.  The seed is taken to be in place when the
\* subscriptions emit their first snapshots.
Mount ==
  /\ phase = "init"
  /\ IF ~configured
       THEN /\ configError' = TRUE
            /\ phase' = "configError"
            /\ UNCHANGED << initCalls, dbRooms, subs, opened, roomsChan,
                            logsChan >>
       ELSE /\ phase' = "active"
            /\ initCalls' = initCalls + 1
            /\ dbRooms' = StoreInitializeDB(dbRooms)
            /\ subs' = {"rooms", "logs"}
            /\ opened' = opened + 2
            /\ roomsChan' = << dbRooms' >>
            /\ logsChan' = << dbLogs >>
            /\ UNCHANGED configError
  /\ UNCHANGED << configured, searchQuery, budget, dbLogs, rooms, logs, currentUser,
                  callVars, alerts, clock >>

\* Unmount that calls unsubRooms() only
UnmountLeaksLogs ==
  /\ phase = "active"
  /\ phase' = "unmounted"
  /\ subs' = subs \ {"rooms"}
  /\ roomsChan' = <<>>
  /\ UNCHANGED << configured, searchQuery, budget, initCalls, configError, storeVars, opened,
                  logsChan, rooms, logs, currentUser, callVars, alerts, clock >>

\* the effect's cleanup, lines 81-84
Unmount ==
  /\ phase = "active"
  /\ phase' = "unmounted"
  /\ subs' = {}
  /\ roomsChan' = <<>>
  /\ logsChan' = <<>>
  /\ UNCHANGED << configured, searchQuery, budget, initCalls, configError, storeVars, opened,
                  rooms, logs, currentUser, callVars, alerts, clock >>

\* RoomsCallback that merges the snapshot into the previous value
RoomsCallbackMerge(prev, data) == prev \o data

\* (data) => setRooms(data)
RoomsCallback(prev, data) == data

\* LogsCallback that does not call setLogs
LogsCallbackDrops(prev, data) == prev

\* (data) => setLogs(data)
LogsCallback(prev, data) == data

\* the rooms subscription delivers its oldest pending snapshot
PushRooms ==
  /\ "rooms" \in subs
  /\ roomsChan # <<>>
  /\ rooms' = RoomsCallback(rooms, Head(roomsChan))
  /\ roomsChan' = Tail(roomsChan)
  /\ UNCHANGED << lifeVars, searchQuery, storeVars, subVars, logsChan, logs, currentUser,
                  callVars, alerts, clock >>

\* the logs subscription delivers its oldest pending snapshot
PushLogs ==
  /\ "logs" \in subs
  /\ logsChan # <<>>
  /\ logs' = LogsCallback(logs, Head(logsChan))
  /\ logsChan' = Tail(logsChan)
  /\ UNCHANGED << lifeVars, searchQuery, storeVars, subVars, roomsChan, rooms, currentUser,
                  callVars, alerts, clock >>

\* onClick={() => setCurrentUser(role)}, line 218
SetCurrentUser(role) ==
  /\ phase = "active"
  /\ role # currentUser
  /\ currentUser' = role
  /\ UNCHANGED << lifeVars, searchQuery, storeVars, subVars, chanVars, rooms, logs,
                  callVars, alerts, clock >>

(* --------------------------- mutation service -------------------------- *)
\* handleAddRoom, lines 99-104: prompt, return on a falsy name, else call
\* StorageService.addRoom and await it
handleAddRoom(name) ==
  /\ IF NameRejected(name)
       THEN Return
       ELSE /\ Await(Task("addRoom", AddRoomReq(name[1]), NULL, currentUser,
                          NoLocals))
            /\ UNCHANGED clock
  /\ UNCHANGED << lifeVars, searchQuery, storeVars, subVars, chanVars, rooms, logs,
                  currentUser, denied, alerts >>

\* the Add room button, rendered only for Admin (line 298), is clicked
AddRoom(name) ==
  /\ phase = "active"
  /\ Calls < budget
  /\ currentUser = ADMIN
  /\ handleAddRoom(name)

\* another role looks for Add room: no control is rendered, nothing runs
AddRoomDenied ==
  /\ phase = "active"
  /\ Calls < budget
  /\ currentUser # ADMIN
  /\ denied' = denied + 1
  /\ UNCHANGED << lifeVars, searchQuery, storeVars, subVars, chanVars, rooms, logs,
                  currentUser, tasks, rejected, alerts, clock >>

\* handleUpdateTemp that also writes the new temperature into the mirror
handleUpdateTempOptimistic(id, temp) ==
  /\ LET room == find(rooms, id)
     IN  IF room = NULL
           THEN Return /\ UNCHANGED rooms
           ELSE /\ Await(Task("updateTemp", TemperatureReq(id, temp),
                              room, currentUser,
                              Locals(room[1].temperature, temp, "", 0, 0, 0,
                                     FALSE)))
                /\ rooms' = StoreSetTemperature(rooms, id, temp)
                /\ UNCHANGED clock
  /\ UNCHANGED << lifeVars, searchQuery, storeVars, subVars, chanVars, logs,
                  currentUser, denied, alerts >>

\* handleUpdateTemp, lines 113-117, up to the awaited write
handleUpdateTemp(id, temp) ==
  /\ LET room == find(rooms, id)
     IN  IF room = NULL
           THEN Return
           ELSE /\ Await(Task("updateTemp", TemperatureReq(id, temp),
                              room, currentUser,
                              Locals(room[1].temperature, temp, "", 0, 0, 0,
                                     FALSE)))
                /\ UNCHANGED clock
  /\ UNCHANGED << lifeVars, searchQuery, storeVars, subVars, chanVars, rooms, logs,
                  currentUser, denied, alerts >>

\* handleUpdateStock, lines 122-129, up to the awaited write
handleUpdateStock(id, material, amount) ==
  /\ LET room == find(rooms, id)
     IN  IF room = NULL
           THEN Return
           ELSE LET oldQty == OldQty(room[1].inventory, material)
                    newQty == NewQty(oldQty, amount)
                IN  /\ Await(Task("updateStock",
                                  StockReq(id, material, newQty),
                                  room, currentUser,
                                  Locals(0, 0, material, amount, oldQty,
                                         newQty, FALSE)))
                    /\ UNCHANGED clock
  /\ UNCHANGED << lifeVars, searchQuery, storeVars, subVars, chanVars, rooms, logs,
                  currentUser, denied, alerts >>

\* handleToggleFermentation, lines 136-143, up to the awaited write
handleToggleFermentation(id) ==
  /\ LET room == find(rooms, id)
     IN  IF room = NULL
           THEN Return
           ELSE LET isStarting == IsStarting(room[1].fermentationStart)
                IN  /\ Await(Task("toggle",
                                  FermentationReq(id,
                                    ToggleValue(isStarting, clock)),
                                  room, currentUser,
                                  Locals(0, 0, "", 0, 0, 0, isStarting)))
                    /\ clock' = IF isStarting THEN clock + 1 ELSE clock
  /\ UNCHANGED << lifeVars, searchQuery, storeVars, subVars, chanVars, rooms, logs,
                  currentUser, denied, alerts >>

\* a RoomCard control calls onUpdateTemp
UpdateTemp(id, temp) ==
  phase = "active" /\ Calls < budget /\ handleUpdateTemp(id, temp)

\* a RoomCard control calls onUpdateStock
UpdateStock(id, material, amount) ==
  phase = "active" /\ Calls < budget /\ handleUpdateStock(id, material, amount)

\* a RoomCard control calls onToggleFermentation
ToggleFermentation(id) ==
  phase = "active" /\ Calls < budget /\ handleToggleFermentation(id)

\* The awaited store write of call t settles: the store applies it and emits
\* the new rooms snapshot, or rejects it and changes nothing; the handler
\* then resumes.
WriteSettles(t, ok) ==
  /\ t \in DOMAIN tasks
  /\ tasks[t].pc = "write"
  /\ tasks' = [tasks EXCEPT ![t] = Continuation(tasks[t], ok, clock)]
  /\ IF ok
       THEN /\ dbRooms' = ApplyWrite(dbRooms, tasks[t].w)
            /\ roomsChan' = Emit(roomsChan, "rooms", dbRooms')
       ELSE UNCHANGED << dbRooms, roomsChan >>
  /\ alerts' = IF tasks'[t].result = "alerted" THEN alerts + 1 ELSE alerts
  /\ clock' = IF ok THEN clock + 1 ELSE clock
  /\ UNCHANGED << lifeVars, searchQuery, dbLogs, subVars, logsChan, rooms, logs,
                  currentUser, rejected, denied >>

\* LogSettles in which the new entry takes the place of the latest one
LogSettlesOverwrites(t, ok) ==
  /\ t \in DOMAIN tasks
  /\ tasks[t].pc = "log"
  /\ tasks' = [tasks EXCEPT ![t].pc = "done",
                            ![t].logResult = IF ok THEN "ok" ELSE "unhandled"]
  /\ IF ok
       THEN /\ dbLogs' = IF dbLogs = <<>>
                           THEN StoreAddLog(dbLogs, tasks[t].logEntry[1])
                           ELSE << [dbLogs[1] EXCEPT
                                      !.action = tasks[t].logEntry[1].action] >>
            /\ logsChan' = Emit(logsChan, "logs", dbLogs')
       ELSE UNCHANGED << dbLogs, logsChan >>
  /\ UNCHANGED << lifeVars, searchQuery, dbRooms, subVars, roomsChan, rooms, logs,
                  currentUser, rejected, denied, alerts, clock >>

\* The StorageService.addLog call of call t settles: the store appends the
\* entry and emits the new logs snapshot, or rejects it; nothing awaits it.
LogSettles(t, ok) ==
  /\ t \in DOMAIN tasks
  /\ tasks[t].pc = "log"
  /\ tasks' = [tasks EXCEPT ![t].pc = "done",
                            ![t].logResult = IF ok THEN "ok" ELSE "unhandled"]
  /\ IF ok
       THEN /\ dbLogs' = StoreAddLog(dbLogs, tasks[t].logEntry[1])
            /\ logsChan' = Emit(logsChan, "logs", dbLogs')
       ELSE UNCHANGED << dbLogs, logsChan >>
  /\ UNCHANGED << lifeVars, searchQuery, dbRooms, subVars, roomsChan, rooms, logs,
                  currentUser, rejected, denied, alerts, clock >>

Next ==
  \/ Mount
  \/ Unmount
  \/ PushRooms
  \/ PushLogs
  \/ \E role \in UserRole : SetCurrentUser(role)
  \/ \E name \in PromptResults : AddRoom(name)
  \/ AddRoomDenied
  \/ \E id \in TargetIds, temp \in Temps : UpdateTemp(id, temp)
  \/ \E id \in TargetIds, m \in Materials, a \in Amounts : UpdateStock(id, m, a)
  \/ \E id \in TargetIds : ToggleFermentation(id)
  \/ \E t \in CallIds, ok \in BOOLEAN : WriteSettles(t, ok)
  \/ \E t \in CallIds, ok \in BOOLEAN : LogSettles(t, ok)

Spec == Init /\ [][Next]_vars

\* the same program in a run with one more operation attempt
SpecTwo == InitTwo /\ [][Next]_vars

(* ----------------------------- views ---------------------------------- *)
\* Where the characters of a string matter (the search box, and the room
\* names and material names it is matched against) a string is the sequence
\* of its characters.
UPPER == << "A", "B", "C", "D", "E", "F", "G", "H", "I", "J", "K", "L", "M",
            "N", "O", "P", "Q", "R", "S", "T", "U", "V", "W", "X", "Y", "Z" >>
LOWER == << "a", "b", "c", "d", "e", "f", "g", "h", "i", "j", "k", "l", "m",
            "n", "o", "p", "q", "r", "s", "t", "u", "v", "w", "x", "y", "z" >>

Range(f) == {f[i] : i \in DOMAIN f}

\* String.prototype.toLowerCase
toLowerCase(str) ==
  [i \in 1..Len(str) |->
     IF \E n \in DOMAIN UPPER : UPPER[n] = str[i]
       THEN LOWER[CHOOSE n \in DOMAIN UPPER : UPPER[n] = str[i]]
       ELSE str[i]]

\* String.prototype.includes
includes(str, q) ==
  \E i \in 0..(Len(str) - Len(q)) : SubSeq(str, i + 1, i + Len(q)) = q

\* Object.keys(inventory): the keys, each once, in the object's own order
ObjectKeys(inventory) ==
  LET ks == DOMAIN inventory
  IN  CHOOSE f \in [1..Cardinality(ks) -> ks] : Range(f) = ks

\* the seven seed materials, lines 35-37
INITIAL_MATERIALS ==
  << << "a", "p", "p", "l", "e" >>, << "s", "u", "g", "a", "r" >>,
     << "y", "e", "a", "s", "t" >>, << "g", "r", "a", "p", "e" >>,
     << "b", "a", "r", "l", "e", "y" >>, << "w", "a", "t", "e", "r" >>,
     << "w", "o", "o", "d" >> >>

\* Set.prototype.add on a set kept in insertion order
SetAdd(used, k) == IF k \in Range(used) THEN used ELSE Append(used, k)

RECURSIVE AddEach(_, _)
\* ks.forEach(k => used.add(k))
AddEach(used, ks) ==
  IF ks = <<>> THEN used ELSE AddEach(SetAdd(used, Head(ks)), Tail(ks))

RECURSIVE AddInventoryKeys(_, _)
\* rooms.forEach(r => Object.keys(r.inventory).forEach(k => used.add(k)))
AddInventoryKeys(used, rs) ==
  IF rs = <<>> THEN used
  ELSE AddInventoryKeys(AddEach(used, ObjectKeys(Head(rs).inventory)), Tail(rs))

\* allMaterials that collects into an array in place of a Set
allMaterialsArray(rs) ==
  LET RECURSIVE Keys(_)
      Keys(l) == IF l = <<>> THEN <<>>
                 ELSE ObjectKeys(Head(l).inventory) \o Keys(Tail(l))
  IN  Keys(rs) \o INITIAL_MATERIALS

\* allMaterials, lines 150-155
allMaterials(rs) ==
  AddEach(AddInventoryKeys(<<>>, rs), INITIAL_MATERIALS)

\* filteredRooms that matches the names and keys as they are written
filteredRoomsCaseSensitive(rs, query) ==
  IF query = <<>> THEN rs
  ELSE LET lowerQ == toLowerCase(query)
           Keep(r) == \/ includes(r.name, lowerQ)
                      \/ \E k \in DOMAIN r.inventory : includes(k, lowerQ)
       IN  SelectSeq(rs, Keep)

\* filteredRooms, lines 158-165
filteredRooms(rs, query) ==
  IF query = <<>> THEN rs
  ELSE LET lowerQ == toLowerCase(query)
           Keep(r) == \/ includes(toLowerCase(r.name), lowerQ)
                      \/ \E k \in DOMAIN r.inventory :
                           includes(toLowerCase(k), lowerQ)
       IN  SelectSeq(rs, Keep)

\* onChange={(e) => setSearchQuery(e.target.value)}, line 293
SetSearchQuery(q) ==
  /\ phase = "active"
  /\ q # searchQuery
  /\ searchQuery' = q
  /\ UNCHANGED << lifeVars, storeVars, subVars, chanVars, rooms, logs,
                  currentUser, callVars, alerts, clock >>

\* texts typed into the search box
Queries ==
  { <<>>, << "a" >>, << "A" >>, << "B" >>, << "A", "B" >>, << "b", "a" >>,
    << "H", "o", "n" >>, << "s", "u", "g", "a", "r" >>, << "z" >> }

HONEY == << "h", "o", "n", "e", "y" >>
SUGAR == INITIAL_MATERIALS[2]

\* rooms left in the store by earlier sessions, with names and inventories
\* that exercise the search: upper and lower case, a material outside the
\* seed list, a material of the seed list, a material held by two rooms
ViewRooms ==
  { Room(1, << "A", "b" >>, DefaultTemperature, [k \in {HONEY} |-> 3], NULL),
    Room(2, << "b", "a" >>, DefaultTemperature,
         [k \in {HONEY, SUGAR} |-> 1], Some(1)),
    Room(3, << "c" >>, DefaultTemperature, EmptyInventory, NULL) }

\* the rooms collections the views are computed from: one or two rooms
ViewStores ==
  { << r >> : r \in ViewRooms }
    \cup { pair \in ViewRooms \X ViewRooms : pair[1] # pair[2] }

\* the program before activation, the store holding one of ViewStores
InitViews ==
  /\ budget = 0
  /\ configured \in BOOLEAN
  /\ phase = "init"
  /\ initCalls = 0
  /\ dbRooms \in ViewStores
  /\ dbLogs = <<>>
  /\ subs = {}
  /\ opened = 0
  /\ roomsChan = <<>>
  /\ logsChan = <<>>
  /\ rooms = <<>>
  /\ logs = <<>>
  /\ currentUser = ADMIN
  /\ configError = FALSE
  /\ searchQuery = <<>>
  /\ tasks = <<>>
  /\ rejected = 0
  /\ denied = 0
  /\ alerts = 0
  /\ clock = 2

\* activation, pushes and typing: the steps the two computed views depend on
NextViews ==
  \/ Mount
  \/ PushRooms
  \/ PushLogs
  \/ \E q \in Queries : SetSearchQuery(q)

SpecViews == InitViews /\ [][NextViews]_vars

\* The program with its subscriptions delivering: a snapshot that is pending
\* on an open subscription is eventually handed to its callback.
SpecLive ==
  Init /\ [][Next]_vars /\ WF_vars(PushRooms) /\ WF_vars(PushLogs)

(* ======================= properties of the layer ======================= *)
Settled == \A t \in DOMAIN tasks : tasks[t].pc = "done"
Successes == {t \in DOMAIN tasks : tasks[t].wrote}
Logged == {t \in DOMAIN tasks : tasks[t].logResult = "ok"}

\* the store's room with the given id; it exists whenever it is used
DbRoom(id) == find(dbRooms, id)[1]

(* C1: once every call has settled, the store holds as many log entries as
   there were calls whose store write succeeded.  The code does not await
   addLog nor handle its rejection, so a failed append leaves a successful
   mutation without its entry. *)
C1_LogCountEqualsSuccesses ==
  Settled => Len(dbLogs) = Cardinality(Successes)

(* C2: the audit append is issued only after the store write has succeeded.
   A call still awaiting its write has issued no addLog; a call whose write
   failed never issues one; the failing step leaves the store as it was; and
   the logs collection grows only by the entry of a call that wrote. *)
C2_LogOnlyAfterSuccessfulWrite ==
  [][ /\ \A t \in DOMAIN tasks :
           /\ tasks[t].pc = "write" =>
                tasks[t].logEntry = NULL /\ tasks[t].logResult = "none"
           /\ tasks[t].logResult # "none" => tasks[t].wrote
           /\ (tasks[t].pc = "write" /\ tasks'[t].pc # "write"
                 /\ ~tasks'[t].wrote) =>
                /\ UNCHANGED storeVars
                /\ tasks'[t].pc = "done"
                /\ tasks'[t].logEntry = NULL
      /\ dbLogs' # dbLogs =>
           \E t \in DOMAIN tasks :
             /\ tasks[t].wrote /\ tasks[t].pc = "log" /\ tasks'[t].pc = "done"
             /\ dbLogs' = StoreAddLog(dbLogs, tasks[t].logEntry[1]) ]_vars

\* a call's write failed: the call is over, it issued no addLog, and store
\* and logs are as they were
C2_Witness ==
  /\ \E t \in DOMAIN tasks :
       tasks[t].pc = "done" /\ ~tasks[t].wrote /\ tasks[t].logResult = "none"
  /\ dbRooms = ExistingRooms
  /\ dbLogs = <<>>

(* C3: an Add room attempt by a role that is not Admin is rejected without
   touching the store or the log, and the rejection is shown to the user.
   The code renders no control for such a role and shows nothing. *)
C3_DeniedAddRoomIsSurfaced ==
  [][ denied' # denied =>
        /\ UNCHANGED << storeVars, tasks >>
        /\ alerts' = alerts + 1 ]_vars

Max0(x) == IF x > 0 THEN x ELSE 0

(* C4: Adjust stock writes max(0, old + delta), so no quantity requested of
   the store, held by the store or held by the mirror is negative.  The code
   writes old + delta unclamped. *)
C4_StockIsClamped ==
  /\ \A t \in DOMAIN tasks :
       tasks[t].op = "updateStock" =>
         tasks[t].w.qty = Max0(tasks[t].locals.oldQty + tasks[t].locals.amount)
  /\ \A i \in DOMAIN dbRooms : \A k \in DOMAIN dbRooms[i].inventory :
       dbRooms[i].inventory[k] >= 0
  /\ \A i \in DOMAIN rooms : \A k \in DOMAIN rooms[i].inventory :
       rooms[i].inventory[k] >= 0

(* C5: invalid input is rejected before any network call.  A call that
   returns at its input check changes neither the store, the channels nor the
   set of running calls; and a call that does issue a write had a non-empty
   name (Add room) or a room id present in the mirror (the other three). *)
C5_InvalidInputIssuesNothing ==
  [][ /\ rejected' # rejected =>
           UNCHANGED << storeVars, chanVars, tasks, alerts >>
      /\ Len(tasks') > Len(tasks) =>
           LET task == tasks'[Len(tasks')]
           IN  IF task.op = "addRoom"
                 THEN task.w.name # ""
                 ELSE find(rooms, task.w.id) # NULL ]_vars

\* a call returned at its input check and nothing was written or logged
C5_Witness ==
  rejected = 1 /\ tasks = <<>> /\ dbLogs = <<>> /\ dbRooms = SeedRooms

TogglesOf(id) ==
  {t \in DOMAIN tasks : tasks[t].op = "toggle" /\ tasks[t].w.id = id}

\* call u was made after the write of call t had settled: the instant u read
\* is later than the instant of t's addLog
After(t, u) ==
  /\ t < u
  /\ tasks[t].logEntry # NULL
  /\ tasks[u].w.start # NULL =>
       tasks[u].w.start[1] > tasks[t].logEntry[1].timestamp

(* C6: two Toggle fermentation calls on a room, the second made after the
   first one's write was applied, and no other toggle of that room, leave the
   store's fermentationStart at its original value, null.  The second call
   reads the mirror, which still shows null until the push arrives, and
   writes a timestamp again. *)
C6_ToggleTwiceRestores ==
  \A id \in TargetIds :
    \A t, u \in TogglesOf(id) :
      ( /\ TogglesOf(id) = {t, u}
        /\ After(t, u)
        /\ tasks[t].wrote /\ tasks[u].wrote )
      => DbRoom(id).fermentationStart = NULL

IsTimestampOrNull(start) ==
  start = NULL \/ (Len(start) = 1 /\ start[1] \in Nat /\ start[1] > 0)

(* C7: a Toggle fermentation on a room the mirror shows with a null
   fermentationStart writes a timestamp > 0 and logs "fermentation started";
   on a room shown with a non-null one it writes null and logs "fermentation
   stopped".  The entry appended to the store carries that label, and every
   fermentationStart in the store and in the mirror is null or a timestamp. *)
C7_ToggleDirectionAndLabelAgree ==
  /\ \A t \in DOMAIN tasks :
       tasks[t].op = "toggle" =>
         LET before == tasks[t].room[1].fermentationStart
             start == tasks[t].w.start
             label == IF start # NULL THEN ACT_FERMENT_START
                                      ELSE ACT_FERMENT_STOP
         IN  /\ before = NULL => start # NULL /\ start[1] > 0
             /\ before # NULL => start = NULL
             /\ tasks[t].wrote => tasks[t].logEntry[1].action = label
             /\ tasks[t].logResult = "ok" =>
                  \E i \in DOMAIN dbLogs :
                    /\ dbLogs[i].action = label
                    /\ dbLogs[i].roomName = tasks[t].room[1].name
                    /\ dbLogs[i].timestamp = tasks[t].logEntry[1].timestamp
  /\ \A i \in DOMAIN dbRooms : IsTimestampOrNull(dbRooms[i].fermentationStart)
  /\ \A i \in DOMAIN rooms : IsTimestampOrNull(rooms[i].fermentationStart)

\* a fermenting room was toggled: null was written and a stop was logged
C7_Witness ==
  /\ Len(dbLogs) = 1
  /\ dbLogs[1].action = ACT_FERMENT_STOP
  /\ dbLogs[1].roomName = "R1"
  /\ DbRoom(1).fermentationStart = NULL

(* C8: Adjust stock of material m by d takes the old quantity from the
   mirror's room, 0 when m is not a key of its inventory, and after a
   successful write issues one addLog whose action is "stock in" if d > 0 and
   "stock out" otherwise, and whose details give m, the old quantity and the
   quantity written.  No addLog is issued otherwise, and the store holds one
   entry per addLog that succeeded. *)
C8_StockLogEntry ==
  /\ \A t \in DOMAIN tasks :
       tasks[t].op = "updateStock" =>
         LET inv == tasks[t].room[1].inventory
             m == tasks[t].w.material
             d == tasks[t].locals.amount
             old == IF m \in DOMAIN inv THEN inv[m] ELSE 0
         IN  /\ tasks[t].wrote =>
                  /\ tasks[t].logEntry # NULL
                  /\ tasks[t].logEntry[1].action =
                       (IF d > 0 THEN ACT_STOCK_IN ELSE ACT_STOCK_OUT)
                  /\ tasks[t].logEntry[1].roomName = tasks[t].room[1].name
                  /\ tasks[t].logEntry[1].details.subject = m
                  /\ tasks[t].logEntry[1].details.old = old
                  /\ tasks[t].logEntry[1].details.new = tasks[t].w.qty
             /\ ~tasks[t].wrote => tasks[t].logEntry = NULL
             /\ tasks[t].logResult = "ok" =>
                  \E i \in DOMAIN dbLogs :
                    /\ dbLogs[i].action = tasks[t].logEntry[1].action
                    /\ dbLogs[i].details = tasks[t].logEntry[1].details
  /\ Len(dbLogs) = Cardinality(Logged)

\* a zero adjustment of a material the room does not hold yet was logged
C8_Witness ==
  \E t \in DOMAIN tasks :
    /\ tasks[t].op = "updateStock"
    /\ tasks[t].locals.amount = 0
    /\ tasks[t].w.material \notin DOMAIN tasks[t].room[1].inventory
    /\ tasks[t].logResult = "ok"
    /\ dbLogs[Len(dbLogs)].action = ACT_STOCK_OUT

(* C9: a rooms emission makes the mirror's rooms exactly the emitted snapshot
   and leaves logs and the current role alone; a logs emission makes the
   mirror's logs exactly the emitted snapshot and leaves rooms and the role
   alone. *)
C9_PushReplacesSlice ==
  [][ /\ (subs' = subs /\ roomsChan # <<>> /\ roomsChan' = Tail(roomsChan)) =>
           /\ rooms' = Head(roomsChan)
           /\ UNCHANGED << logs, currentUser >>
      /\ (subs' = subs /\ logsChan # <<>> /\ logsChan' = Tail(logsChan)) =>
           /\ logs' = Head(logsChan)
           /\ UNCHANGED << rooms, currentUser >> ]_vars

\* both slices were replaced, the rooms slice by a snapshot of another length
C9_Witness ==
  /\ Len(rooms) = 2 /\ rooms = dbRooms
  /\ Len(logs) = 1 /\ logs = dbLogs
  /\ roomsChan = <<>> /\ logsChan = <<>>

(* C10: the mirror's rooms and logs change only in a subscription callback:
   a step that changes either of them delivers a pending snapshot and starts
   or settles no call and writes nothing to the store. *)
C10_MirrorWrittenOnlyByPush ==
  [][ (rooms' # rooms \/ logs' # logs) =>
        /\ UNCHANGED << tasks, rejected, denied, storeVars >>
        /\ \/ roomsChan # <<>> /\ roomsChan' = Tail(roomsChan)
           \/ logsChan # <<>> /\ logsChan' = Tail(logsChan) ]_vars

\* a temperature write was applied by the store and the mirror still shows
\* the old temperature
C10_Witness ==
  /\ Len(tasks) = 1
  /\ tasks[1].op = "updateTemp" /\ tasks[1].wrote
  /\ DbRoom(1).temperature = tasks[1].w.temp
  /\ rooms # <<>> /\ rooms[1].temperature # tasks[1].w.temp

(* C11: when the store is not configured the engine enters the
   configuration-error state and never calls initializeDB, subscribeRooms or
   subscribeLogs: no subscription is ever opened, nothing is ever pending on
   a channel and the mirror stays empty. *)
C11_UnconfiguredNeverSubscribes ==
  ~configured =>
    /\ phase \in {"init", "configError"}
    /\ configError <=> phase = "configError"
    /\ initCalls = 0 /\ opened = 0 /\ subs = {}
    /\ roomsChan = <<>> /\ logsChan = <<>>
    /\ rooms = <<>> /\ logs = <<>>

\* the effect ran with an unconfigured store
C11_Witness ==
  ~configured /\ phase = "configError" /\ configError /\ opened = 0

(* C12: activation with a configured store opens exactly the rooms and the
   logs subscription, and teardown closes both: while active exactly those
   two are open, and after teardown none is open and none was opened
   besides those two. *)
C12_SubscriptionsOpenedAndClosed ==
  /\ phase = "init" => subs = {} /\ opened = 0
  /\ phase = "active" => subs = {"rooms", "logs"} /\ opened = 2
  /\ phase = "unmounted" => subs = {} /\ opened = 2
  /\ configured => ~configError /\ phase # "configError"

\* the engine was torn down while a call was still awaiting its write
C12_Witness ==
  /\ phase = "unmounted" /\ subs = {} /\ opened = 2
  /\ \E t \in DOMAIN tasks : tasks[t].pc = "write"

(* C13: the logs collection is append-only: every step leaves the entries
   the store already holds in place with their fields unchanged, and adds at
   most one entry at the end. *)
C13_LogsAppendOnly ==
  [][ /\ Len(dbLogs') \in {Len(dbLogs), Len(dbLogs) + 1}
      /\ \A i \in DOMAIN dbLogs : dbLogs'[i] = dbLogs[i] ]_vars

\* a second entry was appended behind an earlier one
C13_Witness ==
  /\ Len(dbLogs) = 2
  /\ dbLogs[1].timestamp < dbLogs[2].timestamp
  /\ Settled

(* C14: every failure of a store write or of a log append surfaces to the
   caller of the operation (as a rejection, or as the alert handleAddRoom
   raises), and the operation is not retried.  The code does not await
   addLog: when the append fails the handler has already returned normally
   and the failure reaches no caller. *)
C14_FailuresSurface ==
  \A t \in DOMAIN tasks :
    /\ (tasks[t].pc = "done" /\ ~tasks[t].wrote) =>
         tasks[t].result \in {"rejected", "alerted"}
    /\ tasks[t].logResult = "unhandled" =>
         tasks[t].result \in {"rejected", "alerted"}

(* C15: the materials catalog is exactly the union of the seed list and
   the inventory keys of the mirror's rooms, each material once. *)
C15_CatalogIsUnion ==
  LET catalog == allMaterials(rooms)
  IN  /\ Range(catalog) =
           Range(INITIAL_MATERIALS)
             \cup UNION {DOMAIN rooms[i].inventory : i \in DOMAIN rooms}
      /\ \A i, j \in DOMAIN catalog : i # j => catalog[i] # catalog[j]

\* two rooms hold the same material outside the seed list, one of them also
\* a seed material: the catalog has the seven seeds and one more
C15_Witness ==
  /\ Len(rooms) = 2
  /\ \A i \in DOMAIN rooms : HONEY \in DOMAIN rooms[i].inventory
  /\ \E i \in DOMAIN rooms : SUGAR \in DOMAIN rooms[i].inventory
  /\ Len(allMaterials(rooms)) = Len(INITIAL_MATERIALS) + 1

\* the two characters are the same letter, whatever their case
SameLetter(a, b) ==
  a = b \/ \E n \in DOMAIN UPPER : {a, b} = {UPPER[n], LOWER[n]}

\* str contains q as a substring, letter case ignored
ContainsIgnoringCase(str, q) ==
  \E i \in 0..(Len(str) - Len(q)) :
    \A j \in 1..Len(q) : SameLetter(str[i + j], q[j])

\* the room's name or one of its inventory keys contains q
RoomMatches(r, q) ==
  \/ ContainsIgnoringCase(r.name, q)
  \/ \E k \in DOMAIN r.inventory : ContainsIgnoringCase(k, q)

(* C16: with an empty query the filtered rooms are the mirror's rooms in the
   same order; with a non-empty query they are the sub-list, in the mirror's
   order, of exactly the rooms whose name or some inventory key contains the
   query as a case-insensitive substring. *)
C16_FilteredRooms ==
  LET out == filteredRooms(rooms, searchQuery)
      hits == {i \in DOMAIN rooms : RoomMatches(rooms[i], searchQuery)}
  IN  IF searchQuery = <<>>
        THEN out = rooms
        ELSE \E f \in [DOMAIN out -> DOMAIN rooms] :
               /\ \A k, l \in DOMAIN out : k < l => f[k] < f[l]
               /\ Range(f) = hits
               /\ \A k \in DOMAIN out : out[k] = rooms[f[k]]

\* a query that matches one of two rooms, and only with its case ignored
C16_Witness ==
  /\ searchQuery = << "A", "B" >>
  /\ Len(rooms) = 2
  /\ Len(filteredRooms(rooms, searchQuery)) = 1
  /\ ~includes(filteredRooms(rooms, searchQuery)[1].name, searchQuery)

\* two Adjust stock calls on the same room and material that read the same
\* old quantity from the mirror, both written, u's write applied after t's
StalePair(t, u) ==
  /\ t # u
  /\ tasks[t].op = "updateStock" /\ tasks[u].op = "updateStock"
  /\ tasks[t].w.id = tasks[u].w.id
  /\ tasks[t].locals.material = tasks[u].locals.material
  /\ tasks[t].locals.oldQty = tasks[u].locals.oldQty
  /\ tasks[t].wrote /\ tasks[u].wrote
  /\ tasks[t].logEntry[1].timestamp < tasks[u].logEntry[1].timestamp

(* C17: when two Adjust stock calls on the same room and material start
   from the same old quantity q, the store ends with the quantity of the
   write applied last, q plus that call's delta clamped at zero, and not
   with the combination of both deltas.  The code sends q + amount without
   clamping it, so a removal beyond the stock leaves a negative quantity. *)
C17_LastWriteWinsClamped ==
  \A t, u \in DOMAIN tasks :
    StalePair(t, u) =>
      DbRoom(tasks[u].w.id).inventory[tasks[u].locals.material]
        = Max0(tasks[u].locals.oldQty + tasks[u].locals.amount)

\* the 'old' value a call read from the room it found in the mirror
OldValueOf(task) ==
  CASE task.op = "updateTemp"  -> task.room[1].temperature
    [] task.op = "updateStock" ->
         OldQty(task.room[1].inventory, task.locals.material)
    [] OTHER -> 0

(* C18: a log entry is a snapshot taken when the mutation was invoked.  A
   call keeps the role and the mirror's room of the moment it was invoked,
   whatever happens to the role and the mirror afterwards; the entry built
   when its write has succeeded carries that role, that room's name and the
   old value read from that room; and the entry sent to the store is that
   entry. *)
C18_LogEntryIsInvocationSnapshot ==
  [][ /\ Len(tasks') = Len(tasks) + 1 =>
           LET new == tasks'[Len(tasks')]
           IN  /\ new.role = currentUser
               /\ new.op # "addRoom" => new.room = find(rooms, new.w.id)
      /\ \A t \in DOMAIN tasks :
           /\ tasks'[t].role = tasks[t].role
           /\ tasks'[t].room = tasks[t].room
           /\ tasks[t].logEntry # NULL => tasks'[t].logEntry = tasks[t].logEntry
           /\ (tasks[t].logEntry = NULL /\ tasks'[t].logEntry # NULL) =>
                LET entry == tasks'[t].logEntry[1]
                IN  /\ entry.userRole = tasks[t].role
                    /\ tasks[t].op # "addRoom" =>
                         /\ entry.roomName = tasks[t].room[1].name
                         /\ tasks[t].op # "toggle" =>
                              entry.details.old = OldValueOf(tasks[t])
      /\ Len(dbLogs') > Len(dbLogs) =>
           \E t \in DOMAIN tasks :
             /\ tasks[t].pc = "log"
             /\ \A field \in DOMAIN tasks[t].logEntry[1] :
                  dbLogs'[Len(dbLogs')][field] = tasks[t].logEntry[1][field] ]_vars

\* the role was switched and the mirror's room replaced after the call was
\* invoked: the stored entry has the earlier role and the earlier value
C18_Witness ==
  \E t \in DOMAIN tasks :
    /\ tasks[t].op = "updateTemp" /\ tasks[t].logResult = "ok"
    /\ tasks[t].role # currentUser
    /\ find(rooms, tasks[t].w.id) # NULL
    /\ find(rooms, tasks[t].w.id)[1].temperature # tasks[t].room[1].temperature
    /\ dbLogs[Len(dbLogs)].userRole = tasks[t].role
    /\ dbLogs[Len(dbLogs)].details.old = tasks[t].room[1].temperature

(* C19: if the engine stays active (configured, never torn down) and every
   pending push is eventually delivered, then once the writes have stopped
   the mirror's rooms and logs become equal to the store's and stay equal.
   The number of calls in a run is bounded, so the writes always stop. *)
C19_MirrorConverges ==
  <>[](phase = "active") => <>[](rooms = dbRooms /\ logs = dbLogs)

\* a write and its log entry were applied, every push was delivered, and
\* the mirror shows both
C19_Witness ==
  /\ phase = "active" /\ Settled
  /\ roomsChan = <<>> /\ logsChan = <<>>
  /\ \E t \in DOMAIN tasks : tasks[t].op = "updateStock" /\ tasks[t].wrote
  /\ Len(dbLogs) = 1
  /\ rooms = dbRooms /\ logs = dbLogs

\* The store's rooms before and after the successful write of call t: the
\* field the operation names has the value the call sent, and nothing else
\* of the collection has changed.
WritesOwnFieldOnly(t, before, after) ==
  LET op == tasks[t].op
      w  == tasks[t].w
  IN  IF op = "addRoom"
        THEN /\ Len(after) = Len(before) + 1
             /\ \A i \in DOMAIN before : after[i] = before[i]
        ELSE /\ Len(after) = Len(before)
             /\ \A i \in DOMAIN before :
                  LET a == before[i]
                      b == after[i]
                  IN  IF a.id # w.id
                        THEN b = a
                        ELSE /\ b.id = a.id /\ b.name = a.name
                             /\ IF op = "updateTemp"
                                  THEN b.temperature = tasks[t].locals.temp
                                  ELSE b.temperature = a.temperature
                             /\ IF op = "toggle"
                                  THEN b.fermentationStart = w.start
                                  ELSE b.fermentationStart = a.fermentationStart
                             /\ IF op = "updateStock"
                                  THEN /\ DOMAIN b.inventory =
                                            DOMAIN a.inventory
                                              \cup {tasks[t].locals.material}
                                       /\ b.inventory[tasks[t].locals.material]
                                            = tasks[t].locals.newQty
                                       /\ \A k \in DOMAIN a.inventory :
                                            k # tasks[t].locals.material =>
                                              b.inventory[k] = a.inventory[k]
                                  ELSE b.inventory = a.inventory

(* C20: each mutation writes only its own field of the target room: the
   store's rooms change only when a call's write is applied (or the database
   is seeded at activation), and that write sets temperature, or
   fermentationStart, or inventory[material] of the target room and leaves
   every other field, inventory key and room as it was.  Hence, of two calls
   that changed the temperature and toggled the fermentation of one room,
   the store shows the effect of both. *)
C20_WritesOwnFieldOnly ==
  /\ [][ /\ dbRooms' # dbRooms =>
              \/ phase = "init"
              \/ \E t \in DOMAIN tasks :
                   /\ tasks[t].pc = "write" /\ tasks'[t].wrote
                   /\ WritesOwnFieldOnly(t, dbRooms, dbRooms')
         /\ \A t \in DOMAIN tasks :
              (tasks[t].pc = "write" /\ tasks'[t].wrote) =>
                WritesOwnFieldOnly(t, dbRooms, dbRooms') ]_vars
  /\ [](\A t, u \in DOMAIN tasks :
          ( /\ tasks[t].op = "updateTemp" /\ tasks[u].op = "toggle"
            /\ tasks[t].w.id = tasks[u].w.id
            /\ tasks[t].wrote /\ tasks[u].wrote ) =>
            /\ DbRoom(tasks[t].w.id).temperature = tasks[t].locals.temp
            /\ DbRoom(tasks[u].w.id).fermentationStart = tasks[u].w.start)

\* the stock of a material new to the room was written: the room's other
\* key, its temperature and its name are as before
C20_Witness ==
  \E t \in DOMAIN tasks :
    /\ tasks[t].op = "updateStock" /\ tasks[t].wrote
    /\ tasks[t].locals.amount = 1
    /\ tasks[t].locals.material \notin DOMAIN tasks[t].room[1].inventory
    /\ DbRoom(tasks[t].w.id).inventory =
         [k \in {"sugar", "yeast"} |-> IF k = "sugar" THEN 1 ELSE 2]
    /\ DbRoom(tasks[t].w.id).temperature = DefaultTemperature
    /\ DbRoom(tasks[t].w.id).name = tasks[t].room[1].name

====
